---- MODULE Spec2Model ----
(***************************************************************************)
(* A state-machine model of libcore's DVec (src/libcore/dvec.rs): a        *)
(* growable vector whose storage slot `data` holds either the owned        *)
(* vector or a null pointer while the vector is checked out.               *)
(*                                                                         *)
(* Every method is an operator from the slot (and the arguments) to the    *)
(* new slot, the outcome and the returned value; the actions apply the     *)
(* operators to the container and keep a record of the most recent call.   *)
(* Methods that run a user callback (check_out, swap, borrow, borrow_mut,  *)
(* rev_each, rev_eachi) are split into the call, the steps of the callback *)
(* and the return.                                                         *)
(***************************************************************************)
EXTENDS Integers, Sequences, FiniteSets

VARIABLES data, stack, live, poisoned, abandoned, alt, rec, prev, ref, held

vars == <<data, stack, live, poisoned, abandoned, alt, rec, prev, ref, held>>

(***************************************************************************)
(* Bounds of the model.                                                    *)
(***************************************************************************)
\* longest vector the container holds
MaxLen == 3
\* longest source vector handed to push_all / push_slice
MaxTs == 2
\* largest capacity hint handed to reserve
MaxCount == 1

\* DVec<A> is generic in A and never inspects an element: two values tell
\* any two positions of a vector apart
Elem == {0, 1}

Seqs(n) == UNION {[1..k -> Elem] : k \in 0..n}

(***************************************************************************)
(* The storage slot: the owned vector, or the null pointer.                *)
(***************************************************************************)
Null == [null |-> TRUE, v |-> <<>>]

Present(s) == [null |-> FALSE, v |-> s]

\* outcomes of a call
OK == "ok"
ReentrantAccess == "ReentrantAccess"
EmptyContainer == "EmptyContainer"
IndexOutOfRange == "IndexOutOfRange"
CallbackFault == "CallbackFault"
Segfault == "Segfault"
\* the call has not ended yet: its callback is running
Running == "running"

NoVal == 0 - 1

\* what a method leaves behind: the slot, the outcome, the returned value
\* (an element or a length) and the returned vector
R(d, res, val, ret) ==
    [data |-> d, res |-> res, val |-> val, ret |-> ret, ev |-> <<>>]

\* ev lists the calls of check_out that passed the null test and the calls of
\* give_back the method made, in their order: the result r of the code that
\* follows a successful check_out, and of the code that ends with give_back
CheckedOut(r) == [r EXCEPT !.ev = <<"check_out">> \o @]

GaveBack(r) == [r EXCEPT !.ev = Append(@, "give_back")]

(***************************************************************************)
(* Operations of core::vec used by dvec.rs.                                *)
(***************************************************************************)
\* vec::pop: fails on an empty vector, else removes and returns the last
VecPop(v) ==
    IF Len(v) = 0
    THEN [ok |-> FALSE, v |-> v, result |-> NoVal]
    ELSE [ok |-> TRUE, v |-> SubSeq(v, 1, Len(v) - 1), result |-> v[Len(v)]]

\* vec::shift: fails on an empty vector, else removes and returns the first
VecShift(v) ==
    IF Len(v) = 0
    THEN [ok |-> FALSE, v |-> v, result |-> NoVal]
    ELSE [ok |-> TRUE, v |-> SubSeq(v, 2, Len(v)), result |-> v[1]]

RECURSIVE ReverseLoop(_, _)
\* the loop of vec::reverse: exchange v[i] and v[ln - i - 1] while i < ln / 2
ReverseLoop(v, i) ==
    LET ln == Len(v) IN
    IF i < ln \div 2
    THEN ReverseLoop([v EXCEPT ![i + 1] = v[ln - i], ![ln - i] = v[i + 1]], i + 1)
    ELSE v

VecReverse(v) == ReverseLoop(v, 0)

RECURSIVE VecGrow(_, _, _)
\* vec::grow: push n copies of initval
VecGrow(v, n, initval) ==
    IF n = 0 THEN v ELSE VecGrow(Append(v, initval), n - 1, initval)

\* vec::grow_set: grow up to index + 1 with initval, then store val at index
GrowSet(v, index, initval, val) ==
    LET l == Len(v)
        g == IF index >= l THEN VecGrow(v, index - l + 1, initval) ELSE v
    IN  [g EXCEPT ![index + 1] = val]

\* vec::push_all_move: append the elements of rhs to lhs, in order
PushAllMove(lhs, rhs) == lhs \o rhs

\* vec::reserve: a capacity hint, no effect on length or elements
VecReserve(v, n) == v

(***************************************************************************)
(* Construction and consumption.                                           *)
(***************************************************************************)
DVec == Present(<<>>)

from_elem(e) == Present(<<e>>)

\* from_vec that drops the vector it is given
from_vec_dropped(v) == Present(<<>>)

from_vec(v) == Present(v)

\* moves the slot out as it is, null pointer or not
unwrap(d) == R(d, OK, NoVal, d)

(***************************************************************************)
(* The checkout protocol.                                                  *)
(***************************************************************************)
\* check_not_borrowed without the null test
check_not_borrowed_skipped(d) == TRUE

\* TRUE when the check passes, FALSE when it fails with "Recursive use"
check_not_borrowed(d) == ~d.null

give_back(v) == Present(v)

\* check_out that tests the slot but leaves the vector in it
check_out_no_sentinel(d) == [ok |-> ~d.null, data |-> d, v |-> d.v]

\* check_out without the null test
check_out_untested(d) == [ok |-> TRUE, data |-> Null, v |-> d.v]

\* exchanges the slot with a null pointer, then tests what came out
check_out(d) == [ok |-> ~d.null, data |-> Null, v |-> d.v]

(***************************************************************************)
(* The methods without a user callback.                                    *)
(***************************************************************************)
\* reserve does not test the slot: on a null slot vec::reserve dereferences
\* the null pointer, which is undefined; ub is the outcome the build gives
reserve(d, count, ub) ==
    IF d.null
    THEN R(d, ub, NoVal, Null)
    ELSE R(Present(VecReserve(d.v, count)), OK, NoVal, Null)

len(d) ==
    IF ~check_not_borrowed(d)
    THEN R(d, ReentrantAccess, NoVal, Null)
    ELSE R(d, OK, Len(d.v), Null)

\* set without check_not_borrowed
set_unchecked(d, w) == R(Present(w), OK, NoVal, Null)

set(d, w) ==
    IF ~check_not_borrowed(d)
    THEN R(d, ReentrantAccess, NoVal, Null)
    ELSE R(Present(w), OK, NoVal, Null)

\* pop that gives the vector back before vec::pop fails on it
pop_given_back_first(d) ==
    LET co == check_out(d) IN
    IF ~co.ok
    THEN R(co.data, ReentrantAccess, NoVal, Null)
    ELSE LET p == VecPop(co.v) IN
         IF ~p.ok
         THEN CheckedOut(GaveBack(R(give_back(co.v), EmptyContainer, NoVal, Null)))
         ELSE CheckedOut(GaveBack(R(give_back(p.v), OK, p.result, Null)))

\* pop that gives back the vector as it was checked out
pop_not_removed(d) ==
    LET co == check_out(d) IN
    IF ~co.ok
    THEN R(co.data, ReentrantAccess, NoVal, Null)
    ELSE LET p == VecPop(co.v) IN
         IF ~p.ok
         THEN CheckedOut(R(co.data, EmptyContainer, NoVal, Null))
         ELSE CheckedOut(GaveBack(R(give_back(co.v), OK, p.result, Null)))

pop(d) ==
    LET co == check_out(d) IN
    IF ~co.ok
    THEN R(co.data, ReentrantAccess, NoVal, Null)
    ELSE LET p == VecPop(co.v) IN
         IF ~p.ok
         THEN CheckedOut(R(co.data, EmptyContainer, NoVal, Null))
         ELSE CheckedOut(GaveBack(R(give_back(p.v), OK, p.result, Null)))

\* unshift that appends the old contents before t instead of after it
unshift_at_end(d, t) ==
    LET co == [ok |-> ~d.null, data |-> Null, v |-> d.v] IN
    IF ~co.ok
    THEN R(co.data, ReentrantAccess, NoVal, Null)
    ELSE R(Present(PushAllMove(co.v, <<t>>)), OK, NoVal, Null)

unshift(d, t) ==
    LET co == [ok |-> ~d.null, data |-> Null, v |-> d.v] IN
    IF ~co.ok
    THEN R(co.data, ReentrantAccess, NoVal, Null)
    ELSE R(Present(PushAllMove(<<t>>, co.v)), OK, NoVal, Null)

push(d, t) ==
    IF ~check_not_borrowed(d)
    THEN R(d, ReentrantAccess, NoVal, Null)
    ELSE R(Present(Append(d.v, t)), OK, NoVal, Null)

\* shift that gives back the vector without its last element
shift_from_end(d) ==
    LET co == check_out(d) IN
    IF ~co.ok
    THEN R(co.data, ReentrantAccess, NoVal, Null)
    ELSE LET s == VecShift(co.v) IN
         IF ~s.ok
         THEN CheckedOut(R(co.data, EmptyContainer, NoVal, Null))
         ELSE CheckedOut(GaveBack(R(give_back(VecPop(co.v).v), OK, s.result, Null)))

shift(d) ==
    LET co == check_out(d) IN
    IF ~co.ok
    THEN R(co.data, ReentrantAccess, NoVal, Null)
    ELSE LET s == VecShift(co.v) IN
         IF ~s.ok
         THEN CheckedOut(R(co.data, EmptyContainer, NoVal, Null))
         ELSE CheckedOut(GaveBack(R(give_back(s.v), OK, s.result, Null)))

\* reverse that gives back the vector as it was checked out
reverse_not_reversed(d) ==
    LET co == check_out(d) IN
    IF ~co.ok
    THEN R(co.data, ReentrantAccess, NoVal, Null)
    ELSE CheckedOut(GaveBack(R(give_back(co.v), OK, NoVal, Null)))

reverse(d) ==
    LET co == check_out(d) IN
    IF ~co.ok
    THEN R(co.data, ReentrantAccess, NoVal, Null)
    ELSE CheckedOut(GaveBack(R(give_back(VecReverse(co.v)), OK, NoVal, Null)))

RECURSIVE push_slice_loop(_, _, _, _, _)
\* while i < to_idx { v.push(ts[i]); i += 1 }, n counting the iterations;
\* ts[i] fails when i is not an index of ts
push_slice_loop(v, ts, i, to_idx, n) ==
    IF i < to_idx
    THEN IF i >= Len(ts)
         THEN [ok |-> FALSE, v |-> v, n |-> n]
         ELSE push_slice_loop(Append(v, ts[i + 1]), ts, i + 1, to_idx, n + 1)
    ELSE [ok |-> TRUE, v |-> v, n |-> n]

\* push_slice whose loop starts at 0 instead of from_idx
push_slice_from_zero(d, ts, from_idx, to_idx) ==
    LET co == check_out(d) IN
    IF ~co.ok
    THEN R(co.data, ReentrantAccess, NoVal, Null)
    ELSE LET new_len == Len(co.v) + to_idx - from_idx
             v1 == VecReserve(co.v, new_len)
             l == push_slice_loop(v1, ts, 0, to_idx, 0)
         IN  IF ~l.ok
             THEN CheckedOut(R(co.data, IndexOutOfRange, l.n, Null))
             ELSE CheckedOut(GaveBack(R(give_back(l.v), OK, l.n, Null)))

\* val is the number of iterations the loop made
push_slice(d, ts, from_idx, to_idx) ==
    LET co == check_out(d) IN
    IF ~co.ok
    THEN R(co.data, ReentrantAccess, NoVal, Null)
    ELSE LET new_len == Len(co.v) + to_idx - from_idx
             v1 == VecReserve(co.v, new_len)
             l == push_slice_loop(v1, ts, from_idx, to_idx, 0)
         IN  IF ~l.ok
             THEN CheckedOut(R(co.data, IndexOutOfRange, l.n, Null))
             ELSE CheckedOut(GaveBack(R(give_back(l.v), OK, l.n, Null)))

push_all(d, ts) == push_slice(d, ts, 0, Len(ts))

\* copy v: a new vector with the elements of v and storage of its own
Copy(v) == [null |-> FALSE, v |-> v, shared |-> FALSE]

\* get that returns the vector it gives back instead of a copy of it
get_not_copied(d) ==
    LET co == check_out(d) IN
    IF ~co.ok
    THEN R(co.data, ReentrantAccess, NoVal, Null)
    ELSE LET w == [null |-> FALSE, v |-> co.v, shared |-> TRUE]
         IN  CheckedOut(GaveBack(R(give_back(co.v), OK, NoVal, w)))

get(d) ==
    LET co == check_out(d) IN
    IF ~co.ok
    THEN R(co.data, ReentrantAccess, NoVal, Null)
    ELSE LET w == Copy(co.v) IN CheckedOut(GaveBack(R(give_back(co.v), OK, NoVal, w)))

get_elt(d, idx) ==
    IF ~check_not_borrowed(d)
    THEN R(d, ReentrantAccess, NoVal, Null)
    ELSE IF idx >= Len(d.v)
         THEN R(d, IndexOutOfRange, NoVal, Null)
         ELSE R(d, OK, d.v[idx + 1], Null)

\* set_elt that writes the position before idx
set_elt_off_by_one(d, idx, a) ==
    IF ~check_not_borrowed(d)
    THEN R(d, ReentrantAccess, NoVal, Null)
    ELSE IF idx >= Len(d.v)
         THEN R(d, IndexOutOfRange, NoVal, Null)
         ELSE R(Present([d.v EXCEPT ![idx] = a]), OK, NoVal, Null)

set_elt(d, idx, a) ==
    IF ~check_not_borrowed(d)
    THEN R(d, ReentrantAccess, NoVal, Null)
    ELSE IF idx >= Len(d.v)
         THEN R(d, IndexOutOfRange, NoVal, Null)
         ELSE R(Present([d.v EXCEPT ![idx + 1] = a]), OK, NoVal, Null)

\* grow_set_elt that hands initval and val to grow_set the wrong way round
grow_set_elt_swapped(d, idx, initval, val) ==
    LET co == check_out(d) IN
    IF ~co.ok
    THEN R(co.data, ReentrantAccess, NoVal, Null)
    ELSE CheckedOut(GaveBack(R(give_back(GrowSet(co.v, idx, val, initval)), OK, NoVal, Null)))

grow_set_elt(d, idx, initval, val) ==
    LET co == check_out(d) IN
    IF ~co.ok
    THEN R(co.data, ReentrantAccess, NoVal, Null)
    ELSE CheckedOut(GaveBack(R(give_back(GrowSet(co.v, idx, initval, val)), OK, NoVal, Null)))

\* last written with check_out, as pop is
last_by_check_out(d) ==
    LET co == check_out(d) IN
    IF ~co.ok
    THEN R(co.data, ReentrantAccess, NoVal, Null)
    ELSE IF Len(co.v) = 0
         THEN CheckedOut(R(co.data, EmptyContainer, NoVal, Null))
         ELSE CheckedOut(GaveBack(R(give_back(co.v), OK, co.v[Len(co.v)], Null)))

\* last without the test for an empty vector: the index length - 1 wraps
\* and the indexing fails
last_unchecked(d) ==
    IF ~check_not_borrowed(d)
    THEN R(d, ReentrantAccess, NoVal, Null)
    ELSE LET l == len(d) IN
         IF l.res # OK
         THEN l
         ELSE IF l.val = 0
              THEN R(d, IndexOutOfRange, NoVal, Null)
              ELSE R(d, OK, d.v[(l.val - 1) + 1], Null)

last(d) ==
    IF ~check_not_borrowed(d)
    THEN R(d, ReentrantAccess, NoVal, Null)
    ELSE LET l == len(d) IN
         IF l.res # OK
         THEN l
         ELSE IF l.val = 0
              THEN R(d, EmptyContainer, NoVal, Null)
              ELSE R(d, OK, d.v[(l.val - 1) + 1], Null)

index(d, idx) == get_elt(d, idx)

(***************************************************************************)
(* The record of the most recent call, and the reference sequence.         *)
(***************************************************************************)
NoArgs ==
    [t |-> NoVal, idx |-> NoVal, w |-> <<>>, from_idx |-> NoVal,
     to_idx |-> NoVal, initval |-> NoVal, count |-> NoVal]

NoPrev == [op |-> "other", t |-> NoVal, pre |-> <<>>]

\* what the next call remembers of the one before it: a push, unshift or
\* reverse that returned, with its argument and the contents it started
\* from, or a from_vec with the vector it adopted
Summary(r) ==
    IF r.op \in {"push", "unshift", "reverse"} /\ r.res = OK /\ r.depth = 0
    THEN [op |-> r.op, t |-> r.args.t, pre |-> r.pre.v]
    ELSE IF r.op = "from_vec"
         THEN [op |-> r.op, t |-> NoVal, pre |-> r.args.w]
         ELSE NoPrev

\* the operations of the reference sequence
RefOps == {"push", "pop", "unshift", "shift", "reverse", "set", "set_elt"}

\* the reference sequence: push appends, pop removes the last, unshift
\* prepends, shift removes the first, reverse mirrors the positions, set
\* replaces everything, set_elt overwrites one position
RefSeq(op, a, S) ==
    LET n == Len(S) IN
    CASE op = "push"    -> [k \in 1..(n + 1) |-> IF k <= n THEN S[k] ELSE a.t]
      [] op = "pop"     -> [k \in 1..(n - 1) |-> S[k]]
      [] op = "unshift" -> [k \in 1..(n + 1) |-> IF k = 1 THEN a.t ELSE S[k - 1]]
      [] op = "shift"   -> [k \in 1..(n - 1) |-> S[k + 1]]
      [] op = "reverse" -> [k \in 1..n |-> S[n + 1 - k]]
      [] op = "set"     -> a.w
      [] op = "set_elt" -> [k \in 1..n |-> IF k = a.idx + 1 THEN a.t ELSE S[k]]

RefVal(op, S) ==
    CASE op = "pop" /\ Len(S) > 0   -> S[Len(S)]
      [] op = "shift" /\ Len(S) > 0 -> S[1]
      [] OTHER                      -> NoVal

\* the calls the reference sequence follows: made on a container that is not
\* checked out, pop and shift on a non-empty one, set_elt within range
RefPre(op, a, d, depth) ==
    /\ op \in RefOps
    /\ depth = 0
    /\ ~d.null
    /\ op \in {"pop", "shift"} => Len(d.v) > 0
    /\ op = "set_elt" => a.idx < Len(d.v)

\* the order of the check_out and give_back events of a container: last is
\* the latest event, ok says that no event so far repeated the one before it
\* and that the first one was a check_out
AltStep(a, e) ==
    [last |-> e,
     ok |-> a.ok /\ e # a.last /\ (a.last = "none" => e = "check_out")]

RECURSIVE AltFold(_, _)
AltFold(a, evs) ==
    IF evs = <<>> THEN a ELSE AltFold(AltStep(a, Head(evs)), Tail(evs))

NoEvents == [last |-> "none", ok |-> TRUE]

\* the vector the caller of get keeps: none yet
NoHeld == [has |-> FALSE, v |-> <<>>, shared |-> FALSE]

\* the method whose callback makes a call at the given depth
Outer(depth) == IF depth > 0 THEN stack[depth].op ELSE "none"

\* the history after a call op(a) made at the given depth on slot d that
\* ended with result r; calls lists the invocations of the user callback
Recorded(op, a, d, depth, r, calls) ==
    /\ rec' = [op |-> op, depth |-> depth, outer |-> Outer(depth), args |-> a,
               pre |-> d, res |-> r.res, val |-> r.val, ret |-> r.ret,
               calls |-> calls, ev |-> r.ev]
    /\ prev' = Summary(rec)
    /\ ref' = IF ref.ok /\ RefPre(op, a, d, depth)
              THEN [ok |-> TRUE, stepped |-> TRUE,
                    seq |-> RefSeq(op, a, ref.seq), val |-> RefVal(op, ref.seq)]
              ELSE [ok |-> ~r.data.null, stepped |-> FALSE,
                    seq |-> r.data.v, val |-> NoVal]
    /\ poisoned' = (poisoned \/ (r.res # OK /\ r.data.null /\ (depth > 0 \/ ~d.null)))
    /\ abandoned' = (abandoned \/ (op = "check_out" /\ r.res = OK /\ r.data.null))

\* a method without a user callback, run from start to end; a failure
\* unwinds every callback in flight
Invoke(op, a, r) ==
    /\ live
    /\ data' = r.data
    /\ stack' = IF r.res = OK THEN stack ELSE <<>>
    /\ live' = live
    /\ alt' = AltFold(alt, r.ev)
    /\ Recorded(op, a, data, Len(stack), r, <<>>)

\* the call of a method whose caller keeps no vector of its own
Call(op, a, r) ==
    /\ Invoke(op, a, r)
    /\ held' = held

(***************************************************************************)
(* Construction: the container is replaced by a new one.                   *)
(***************************************************************************)
Construct(op, a, d) ==
    /\ stack = <<>>
    /\ data' = d
    /\ stack' = <<>>
    /\ live' = TRUE
    /\ poisoned' = FALSE
    /\ abandoned' = FALSE
    /\ alt' = NoEvents
    /\ held' = held
    /\ rec' = [op |-> op, depth |-> 0, outer |-> "none", args |-> a, pre |-> Null,
               res |-> OK, val |-> NoVal, ret |-> Null, calls |-> <<>>, ev |-> <<>>]
    /\ prev' = NoPrev
    /\ ref' = [ok |-> TRUE, stepped |-> FALSE, seq |-> d.v, val |-> NoVal]

CallDVec == Construct("DVec", NoArgs, DVec)

CallFromElem == \E e \in Elem : Construct("from_elem", [NoArgs EXCEPT !.t = e], from_elem(e))

CallFromVec == \E v \in Seqs(MaxLen) : Construct("from_vec", [NoArgs EXCEPT !.w = v], from_vec(v))

\* unwrap takes the container by value: no callback can be in flight
CallUnwrap ==
    /\ live
    /\ stack = <<>>
    /\ live' = FALSE
    /\ UNCHANGED <<data, stack, alt, held>>
    /\ Recorded("unwrap", NoArgs, data, 0, unwrap(data), <<>>)

(***************************************************************************)
(* The calls of the methods without a user callback.                       *)
(***************************************************************************)
\* the outcomes of dereferencing the null pointer: a trap, or nothing
UBOutcomes == {Segfault, OK}

CallReserve ==
    \E count \in 0..MaxCount, ub \in UBOutcomes :
        Call("reserve", [NoArgs EXCEPT !.count = count], reserve(data, count, ub))

CallLen == Call("len", NoArgs, len(data))

CallSet == \E w \in Seqs(MaxLen) : Call("set", [NoArgs EXCEPT !.w = w], set(data, w))

CallPop == Call("pop", NoArgs, pop(data))

CallUnshift ==
    \E t \in Elem :
        /\ Len(data.v) < MaxLen
        /\ Call("unshift", [NoArgs EXCEPT !.t = t], unshift(data, t))

CallPush ==
    \E t \in Elem :
        /\ Len(data.v) < MaxLen
        /\ Call("push", [NoArgs EXCEPT !.t = t], push(data, t))

CallShift == Call("shift", NoArgs, shift(data))

CallReverse == Call("reverse", NoArgs, reverse(data))

CallPushAll ==
    \E ts \in Seqs(MaxTs) :
        /\ Len(data.v) + Len(ts) <= MaxLen
        /\ Call("push_all", [NoArgs EXCEPT !.w = ts], push_all(data, ts))

CallPushSlice ==
    \E ts \in Seqs(MaxTs) : \E from_idx \in 0..(Len(ts) + 1), to_idx \in 0..(Len(ts) + 1) :
        /\ Len(data.v) + Len(ts) <= MaxLen
        \* new_len is a uint: the calls in which it would wrap are left out
        /\ Len(data.v) + to_idx >= from_idx
        /\ Call("push_slice",
                [NoArgs EXCEPT !.w = ts, !.from_idx = from_idx, !.to_idx = to_idx],
                push_slice(data, ts, from_idx, to_idx))

CallGet == Call("get", NoArgs, get(data))

CallGetElt ==
    \E idx \in 0..MaxLen :
        Call("get_elt", [NoArgs EXCEPT !.idx = idx], get_elt(data, idx))

CallSetElt ==
    \E idx \in 0..MaxLen, a \in Elem :
        Call("set_elt", [NoArgs EXCEPT !.idx = idx, !.t = a], set_elt(data, idx, a))

CallGrowSetElt ==
    \E idx \in 0..(MaxLen - 1), initval \in Elem, val \in Elem :
        Call("grow_set_elt",
             [NoArgs EXCEPT !.idx = idx, !.initval = initval, !.t = val],
             grow_set_elt(data, idx, initval, val))

CallLast == Call("last", NoArgs, last(data))

CallIndex ==
    \E idx \in 0..MaxLen :
        Call("index", [NoArgs EXCEPT !.idx = idx], index(data, idx))

(***************************************************************************)
(* The methods that run a user callback.  A frame is one such method in    *)
(* flight: the vector it extracted (v0), the vector its callback holds     *)
(* now (v), the position of a reverse traversal (i, the number of elements *)
(* not yet visited) and the invocations of the callback made so far.       *)
(***************************************************************************)
TraversalOps == {"rev_each", "rev_eachi"}

\* check_out, swap, borrow and borrow_mut invoke their callback once, with the
\* extracted vector, as soon as the null test has passed; rev_each and
\* rev_eachi invoke f once per iteration
Frame(op, v) ==
    [op |-> op, v0 |-> v, v |-> v, i |-> Len(v), stopped |-> FALSE,
     calls |-> IF op \in TraversalOps THEN <<>> ELSE <<[v |-> v]>>]

Top == stack[Len(stack)]

\* check_out returns what f returned; nothing gives the vector back
check_out_return(d, b) == CheckedOut(R(d, OK, b, Null))

\* swap gives back the vector w that f returned
swap_return(w) == CheckedOut(GaveBack(R(give_back(w), OK, NoVal, Null)))

\* borrow and borrow_mut that return the result of op without give_back
borrow_return_not_given_back(v, b) == CheckedOut(R(Null, OK, b, Null))

\* borrow and borrow_mut give back the vector v they lent to op, then return
\* the result b of op
borrow_return(v, b) == CheckedOut(GaveBack(R(give_back(v), OK, b, Null)))

\* vec::rev_each and vec::rev_eachi visit the elements from the last index
\* down: with n elements left to visit, the next is the one at index n - 1;
\* b is what the body of the loop answers for it
VecRevEachItem(v, n, b) == [i |-> n - 1, e |-> v[n], b |-> b]

\* an iteration that goes on whatever f answers
rev_each_step_no_break(fr, b) ==
    [fr EXCEPT !.calls = Append(@, VecRevEachItem(fr.v, fr.i, b)),
               !.i = @ - 1,
               !.stopped = FALSE]

\* one iteration of the traversal: f is called with the last element not yet
\* visited (and its index) and answers b; the loop breaks when b is FALSE
rev_each_step(fr, b) ==
    [fr EXCEPT !.calls = Append(@, VecRevEachItem(fr.v, fr.i, b)),
               !.i = IF b THEN @ - 1 ELSE @,
               !.stopped = ~b]

\* the closure of rev_each and rev_eachi returns v, which swap gives back
rev_each_return(v) == CheckedOut(GaveBack(R(give_back(v), OK, NoVal, Null)))

\* check_out (directly, or through swap): the slot is exchanged with the null
\* pointer and tested; then the callback starts with the extracted vector
Begin(op) ==
    /\ live
    /\ LET co == check_out(data) IN
       IF ~co.ok
       THEN Call(op, NoArgs, R(co.data, ReentrantAccess, NoVal, Null))
       ELSE /\ data' = co.data
            /\ stack' = Append(stack, Frame(op, co.v))
            /\ rec' = [op |-> op, depth |-> Len(stack), outer |-> Outer(Len(stack)),
                       args |-> NoArgs, pre |-> data, res |-> Running,
                       val |-> NoVal, ret |-> Null, calls |-> <<>>,
                       ev |-> <<"check_out">>]
            /\ prev' = NoPrev
            /\ ref' = [ok |-> FALSE, stepped |-> FALSE, seq |-> <<>>, val |-> NoVal]
            /\ alt' = AltFold(alt, <<"check_out">>)
            /\ UNCHANGED <<live, poisoned, abandoned, held>>

CallCheckOut == Begin("check_out")

CallSwap == Begin("swap")

CallBorrow == Begin("borrow")

CallBorrowMut == Begin("borrow_mut")

CallRevEach == Begin("rev_each")

CallRevEachi == Begin("rev_eachi")

\* the method in flight returns with result r; its check_out was counted
\* when the call began
Return(a, r) ==
    /\ data' = r.data
    /\ stack' = SubSeq(stack, 1, Len(stack) - 1)
    /\ live' = live
    /\ alt' = AltFold(alt, Tail(r.ev))
    /\ held' = held
    /\ Recorded(Top.op, a, Present(Top.v0), Len(stack) - 1, r, Top.calls)

\* the function given to check_out returns; nothing gives the vector back
CheckOutReturn ==
    /\ stack # <<>>
    /\ Top.op = "check_out"
    /\ \E b \in Elem : Return([NoArgs EXCEPT !.t = b], check_out_return(data, b))

\* the function given to swap returns a vector w, which swap gives back
SwapReturn ==
    /\ stack # <<>>
    /\ Top.op = "swap"
    /\ \E w \in Seqs(MaxLen) :
           Return([NoArgs EXCEPT !.w = w], swap_return(w))

\* op writes one element of the mutable slice borrow_mut lent it
BorrowMutWrite ==
    /\ stack # <<>>
    /\ Top.op = "borrow_mut"
    /\ \E k \in 1..Len(Top.v), e \in Elem :
           /\ Top.v[k] # e
           /\ stack' = [stack EXCEPT ![Len(stack)].v[k] = e]
    /\ UNCHANGED <<data, live, poisoned, abandoned, alt, rec, prev, ref, held>>

\* op returns b; borrow / borrow_mut give the vector back and return b
BorrowReturn ==
    /\ stack # <<>>
    /\ Top.op \in {"borrow", "borrow_mut"}
    /\ \E b \in Elem :
           Return([NoArgs EXCEPT !.t = b, !.w = Top.v], borrow_return(Top.v, b))

\* one iteration of vec::rev_each / vec::rev_eachi: f is called on the last
\* element not yet visited and answers b; the loop breaks when b is FALSE
RevEachCall ==
    /\ stack # <<>>
    /\ Top.op \in {"rev_each", "rev_eachi"}
    /\ Top.i >= 1
    /\ ~Top.stopped
    /\ \E b \in BOOLEAN : stack' = [stack EXCEPT ![Len(stack)] = rev_each_step(Top, b)]
    /\ UNCHANGED <<data, live, poisoned, abandoned, alt, rec, prev, ref, held>>

\* the traversal is over: the closure returns v, which swap gives back
RevEachReturn ==
    /\ stack # <<>>
    /\ Top.op \in {"rev_each", "rev_eachi"}
    /\ Top.i = 0 \/ Top.stopped
    /\ Return(NoArgs, rev_each_return(Top.v))

\* the callback fails: the failure unwinds the method in flight, and
\* give_back is never reached
CallbackFails ==
    /\ stack # <<>>
    /\ data' = data
    /\ stack' = <<>>
    /\ live' = live
    /\ alt' = alt
    /\ held' = held
    /\ Recorded(Top.op, NoArgs, Present(Top.v0), Len(stack) - 1,
                CheckedOut(R(data, CallbackFault, NoVal, Null)), Top.calls)

(***************************************************************************)
(* The specification.                                                      *)
(***************************************************************************)
Init ==
    \E v \in Seqs(MaxLen) :
        /\ data = from_vec(v)
        /\ stack = <<>>
        /\ live = TRUE
        /\ poisoned = FALSE
        /\ abandoned = FALSE
        /\ alt = NoEvents
        /\ held = NoHeld
        /\ rec = [op |-> "from_vec", depth |-> 0, outer |-> "none",
                  args |-> [NoArgs EXCEPT !.w = v], pre |-> Null, res |-> OK,
                  val |-> NoVal, ret |-> Null, calls |-> <<>>, ev |-> <<>>]
        /\ prev = NoPrev
        /\ ref = [ok |-> TRUE, stepped |-> FALSE, seq |-> v, val |-> NoVal]

Next ==
    \/ CallDVec
    \/ CallFromElem
    \/ CallFromVec
    \/ CallUnwrap
    \/ CallReserve
    \/ CallLen
    \/ CallSet
    \/ CallPop
    \/ CallUnshift
    \/ CallPush
    \/ CallShift
    \/ CallReverse
    \/ CallPushAll
    \/ CallPushSlice
    \/ CallGet
    \/ CallGetElt
    \/ CallSetElt
    \/ CallGrowSetElt
    \/ CallLast
    \/ CallIndex
    \/ CallCheckOut
    \/ CallSwap
    \/ CallBorrow
    \/ CallBorrowMut
    \/ CallRevEach
    \/ CallRevEachi
    \/ CheckOutReturn
    \/ SwapReturn
    \/ BorrowMutWrite
    \/ BorrowReturn
    \/ RevEachCall
    \/ RevEachReturn
    \/ CallbackFails

Spec == Init /\ [][Next]_vars

(***************************************************************************)
(* The caller keeps the vector get() returned, and goes on using both it   *)
(* and the container.  A vector that shares its storage with the slot      *)
(* shows every write made through the other.                               *)
(***************************************************************************)
Through(d) ==
    IF held.has /\ held.shared /\ ~d.null THEN [held EXCEPT !.v = d.v] ELSE held

Keep(op, a, r) ==
    /\ stack = <<>>
    /\ Invoke(op, a, r)
    /\ held' = Through(r.data)

HeldGet ==
    /\ stack = <<>>
    /\ LET r == get(data) IN
       /\ Invoke("get", NoArgs, r)
       /\ held' = IF r.res = OK
                  THEN [has |-> TRUE, v |-> r.ret.v, shared |-> r.ret.shared]
                  ELSE held

HeldLen == Keep("len", NoArgs, len(data))

HeldGetElt ==
    \E idx \in 0..MaxLen :
        Keep("get_elt", [NoArgs EXCEPT !.idx = idx], get_elt(data, idx))

HeldPush ==
    \E t \in Elem :
        /\ Len(data.v) < MaxLen
        /\ Keep("push", [NoArgs EXCEPT !.t = t], push(data, t))

HeldPop == Keep("pop", NoArgs, pop(data))

HeldSetElt ==
    \E idx \in 0..MaxLen, a \in Elem :
        Keep("set_elt", [NoArgs EXCEPT !.idx = idx, !.t = a], set_elt(data, idx, a))

\* the caller writes w over the vector it keeps
WriteHeld(w) ==
    /\ held.has
    /\ w # held.v
    /\ held' = [held EXCEPT !.v = w]
    /\ data' = IF held.shared /\ ~data.null THEN Present(w) ELSE data
    /\ UNCHANGED <<stack, live, poisoned, abandoned, alt, rec, prev, ref>>

HeldWrite ==
    \E k \in 1..Len(held.v), e \in Elem : WriteHeld([held.v EXCEPT ![k] = e])

HeldGrow ==
    \E e \in Elem :
        /\ Len(held.v) < MaxLen
        /\ WriteHeld(Append(held.v, e))

HeldShrink ==
    /\ Len(held.v) > 0
    /\ WriteHeld(SubSeq(held.v, 1, Len(held.v) - 1))

NextHeld ==
    \/ HeldGet
    \/ HeldLen
    \/ HeldGetElt
    \/ HeldPush
    \/ HeldPop
    \/ HeldSetElt
    \/ HeldWrite
    \/ HeldGrow
    \/ HeldShrink

SpecHeld == Init /\ [][NextHeld]_vars

TypeOK ==
    /\ data.null \in BOOLEAN
    /\ data.v \in Seqs(MaxLen)
    /\ data.null => data.v = <<>>
    /\ live \in BOOLEAN
    /\ poisoned \in BOOLEAN
    /\ Len(stack) <= 1
    /\ held.has \in BOOLEAN
    /\ held.shared \in BOOLEAN
    /\ held.v \in Seqs(MaxLen)

(***************************************************************************)
(* Properties.                                                             *)
(***************************************************************************)
C1Ops ==
    {"len", "push", "set", "get_elt", "set_elt", "last", "pop", "shift",
     "unshift", "reverse", "get", "push_slice", "push_all", "grow_set_elt",
     "swap", "borrow", "borrow_mut", "check_out"}

\* C1: a call of one of these methods made from inside the callback of swap,
\* borrow, borrow_mut, rev_each, rev_eachi or check_out, while the vector is
\* checked out, fails with ReentrantAccess and leaves the slot as it found
\* it (the null pointer): nothing is read from or written to a vector.
C1_NestedCallFails ==
    (rec.depth > 0 /\ rec.op \in C1Ops) =>
        /\ rec.res = ReentrantAccess
        /\ rec.pre = Null
        /\ data = Null
        /\ rec.val = NoVal
        /\ rec.ret = Null

C1_Witness ==
    /\ rec.depth > 0
    /\ rec.outer = "borrow"
    /\ rec.op = "len"
    /\ rec.res = ReentrantAccess

C2Ops ==
    {"reserve", "swap", "len", "set", "pop", "unshift", "push", "shift",
     "reverse", "borrow", "borrow_mut", "push_all", "push_slice", "get",
     "get_elt", "set_elt", "grow_set_elt", "last", "rev_each", "rev_eachi"}

\* C2: invariant I2: when a public method other than check_out returns
\* normally, the slot holds a vector.
C2_PresentOnReturn ==
    (rec.op \in C2Ops /\ rec.res = OK) => ~data.null

Constructors == {"DVec", "from_elem", "from_vec"}

\* C3: once a callback has failed before give_back, the slot stays null and
\* every later call on the container, whatever the method, fails with
\* ReentrantAccess.
C3_PoisonedForever ==
    [][(poisoned /\ live /\ rec'.op \notin Constructors) =>
           (data'.null /\ rec'.res = ReentrantAccess)]_vars

\* C4: along any run of push, pop, unshift, shift, reverse, set and set_elt
\* made on a container that is not checked out (pop and shift on a non-empty
\* one, set_elt within range), every call returns normally, and the contents
\* and the returned value are those of the reference sequence.
C4_RefinesReference ==
    (ref.stepped /\ stack = <<>>) =>
        /\ rec.res = OK
        /\ data = Present(ref.seq)
        /\ rec.val = ref.val

C4_Witness ==
    /\ ref.stepped
    /\ stack = <<>>
    /\ rec.op = "shift"
    /\ prev.op = "reverse"
    /\ Len(data.v) = 2
    /\ data.v[1] # data.v[2]

\* C5: on a container that is not checked out, pop, shift and last fail with
\* EmptyContainer exactly when the vector has no elements.
C5_EmptyContainer ==
    (rec.op \in {"pop", "shift", "last"} /\ ~rec.pre.null) =>
        (rec.res = EmptyContainer <=> Len(rec.pre.v) = 0)

C5_Witness ==
    /\ rec.op = "last"
    /\ ~rec.pre.null
    /\ Len(rec.pre.v) = 0
    /\ rec.res = EmptyContainer

\* C6: get_elt(i), d[i] and set_elt(i, v) fail with IndexOutOfRange when
\* i >= length; otherwise get_elt and d[i] return the element at position i
\* and change nothing, and set_elt stores v at position i and changes no
\* other position and not the length.
C6_IndexedAccess ==
    (rec.op \in {"get_elt", "index", "set_elt"} /\ ~rec.pre.null) =>
        LET S == rec.pre.v
            i == rec.args.idx
        IN  IF i >= Len(S)
            THEN rec.res = IndexOutOfRange
            ELSE /\ rec.res = OK
                 /\ rec.op \in {"get_elt", "index"} =>
                        (rec.val = S[i + 1] /\ data = rec.pre)
                 /\ rec.op = "set_elt" =>
                        /\ ~data.null
                        /\ Len(data.v) = Len(S)
                        /\ \A k \in 1..Len(S) :
                               data.v[k] = IF k = i + 1 THEN rec.args.t ELSE S[k]

C6_Witness ==
    /\ rec.op = "set_elt"
    /\ rec.res = OK
    /\ rec.args.idx = 1
    /\ Len(rec.pre.v) = 3
    /\ data # rec.pre

\* C7: push(e) immediately followed by pop() returns e and leaves the
\* contents the push started from.
C7_PushPop ==
    (rec.op = "pop" /\ rec.depth = 0 /\ prev.op = "push") =>
        /\ rec.res = OK
        /\ rec.val = prev.t
        /\ data = Present(prev.pre)

C7_Witness ==
    /\ rec.op = "pop"
    /\ rec.depth = 0
    /\ prev.op = "push"
    /\ Len(prev.pre) = 2
    /\ rec.val # prev.pre[2]

\* C8: unshift(e) leaves e followed by the old contents in their order, and
\* an immediately following shift() returns e and leaves the old contents.
C8_UnshiftShift ==
    /\ (rec.op = "unshift" /\ ~rec.pre.null) =>
           /\ rec.res = OK
           /\ ~data.null
           /\ Len(data.v) = Len(rec.pre.v) + 1
           /\ data.v[1] = rec.args.t
           /\ \A k \in 1..Len(rec.pre.v) : data.v[k + 1] = rec.pre.v[k]
    /\ (rec.op = "shift" /\ rec.depth = 0 /\ prev.op = "unshift") =>
           /\ rec.res = OK
           /\ rec.val = prev.t
           /\ data = Present(prev.pre)

C8_Witness ==
    /\ rec.op = "shift"
    /\ rec.depth = 0
    /\ prev.op = "unshift"
    /\ Len(prev.pre) = 2
    /\ prev.pre[1] # prev.pre[2]
    /\ rec.val # prev.pre[1]

\* C9: grow_set_elt(i, init, v) on contents of length n leaves length
\* max(n, i + 1) with v at index i; when i >= n the indices n..i-1 hold init
\* and those below n are unchanged; when i < n only index i changes, as
\* with set_elt(i, v).
C9_GrowSetElt ==
    (rec.op = "grow_set_elt" /\ ~rec.pre.null) =>
        LET S == rec.pre.v
            n == Len(S)
            i == rec.args.idx
        IN  /\ rec.res = OK
            /\ ~data.null
            /\ Len(data.v) = IF n >= i + 1 THEN n ELSE i + 1
            /\ data.v[i + 1] = rec.args.t
            /\ \A k \in 1..n : k # i + 1 => data.v[k] = S[k]
            /\ \A k \in (n + 1)..i : data.v[k] = rec.args.initval
            /\ i < n => data = set_elt(rec.pre, i, rec.args.t).data

C9_Witness ==
    /\ rec.op = "grow_set_elt"
    /\ Len(rec.pre.v) = 1
    /\ rec.args.idx = 2
    /\ rec.args.initval # rec.args.t
    /\ rec.res = OK

\* C10: push_slice(ts, from, to) with from <= to <= length(ts) leaves the old
\* contents followed by ts[from], ..., ts[to - 1] in that order, after
\* exactly to - from iterations; push_all(ts) leaves the old contents
\* followed by all of ts, as push_slice(ts, 0, length(ts)) does.
C10_PushSlice ==
    /\ (/\ rec.op = "push_slice"
        /\ ~rec.pre.null
        /\ rec.args.from_idx <= rec.args.to_idx
        /\ rec.args.to_idx <= Len(rec.args.w)) =>
           LET S == rec.pre.v
               ts == rec.args.w
               f == rec.args.from_idx
               t == rec.args.to_idx
           IN  /\ rec.res = OK
               /\ ~data.null
               /\ Len(data.v) = Len(S) + (t - f)
               /\ \A k \in 1..Len(S) : data.v[k] = S[k]
               /\ \A j \in 0..(t - f - 1) : data.v[Len(S) + j + 1] = ts[f + j + 1]
               /\ rec.val = t - f
    /\ (rec.op = "push_all" /\ ~rec.pre.null) =>
           /\ rec.res = OK
           /\ data = Present(rec.pre.v \o rec.args.w)
           /\ rec.val = Len(rec.args.w)

C10_Witness ==
    /\ rec.op = "push_slice"
    /\ Len(rec.pre.v) = 1
    /\ Len(rec.args.w) = 2
    /\ rec.args.w[1] # rec.args.w[2]
    /\ rec.args.from_idx = 1
    /\ rec.args.to_idx = 2
    /\ rec.res = OK

\* the invocations of f a reverse traversal of S has made: from the last
\* index down, each with its element, all but the latest answered TRUE
Traversed(calls, S) ==
    LET n == Len(S) IN
    /\ Len(calls) <= n
    /\ \A k \in 1..Len(calls) : calls[k].i = n - k /\ calls[k].e = S[n - k + 1]
    /\ \A k \in 1..(Len(calls) - 1) : calls[k].b

\* C11: rev_each and rev_eachi call f on the elements from the last index
\* down to the first, make no call after the first one f answers FALSE, and
\* after a complete and after a cut-short traversal alike leave the contents
\* as they were.
C11_ReverseTraversal ==
    /\ (stack # <<>> /\ Top.op \in TraversalOps) =>
           /\ Traversed(Top.calls, Top.v0)
           /\ Top.v = Top.v0
    /\ (rec.op \in TraversalOps /\ rec.res = OK) =>
           /\ Traversed(rec.calls, rec.pre.v)
           /\ \/ Len(rec.calls) = Len(rec.pre.v)
              \/ ~rec.calls[Len(rec.calls)].b
           /\ data = rec.pre

C11_Witness ==
    /\ rec.op = "rev_eachi"
    /\ rec.res = OK
    /\ Len(rec.pre.v) = 3
    /\ Len(rec.calls) = 2
    /\ ~rec.calls[2].b
    /\ data = rec.pre

\* C12: borrow and borrow_mut call op once, with the extracted vector, keep
\* the slot null while op runs, and return what op returned; after borrow the
\* contents are those before the call, after borrow_mut they are the vector
\* as op left it, of the same length.
C12_Borrow ==
    /\ (stack # <<>> /\ Top.op \in {"borrow", "borrow_mut"}) =>
           /\ data.null
           /\ Len(Top.calls) = 1
           /\ Top.calls[1].v = Top.v0
           /\ Len(Top.v) = Len(Top.v0)
           /\ Top.op = "borrow" => Top.v = Top.v0
    /\ (rec.op \in {"borrow", "borrow_mut"} /\ rec.res = OK) =>
           /\ Len(rec.calls) = 1
           /\ rec.calls[1].v = rec.pre.v
           /\ rec.val = rec.args.t
           /\ rec.ev = <<"check_out", "give_back">>
           /\ rec.op = "borrow" => data = rec.pre
           /\ rec.op = "borrow_mut" =>
                  (data = Present(rec.args.w) /\ Len(data.v) = Len(rec.pre.v))

C12_Witness ==
    /\ rec.op = "borrow_mut"
    /\ rec.res = OK
    /\ Len(rec.pre.v) = 2
    /\ data.v[1] # rec.pre.v[1]
    /\ data.v[2] = rec.pre.v[2]

\* C13: get() returns a vector equal to the contents and leaves the contents
\* as they were, in the slot; afterwards no write the caller makes to the
\* returned vector changes the slot (so nothing len, get_elt or get read),
\* and no call that changes the slot changes the returned vector.
C13_GetCopies ==
    /\ []((rec.op = "get" /\ ~rec.pre.null) =>
              /\ rec.res = OK
              /\ rec.ret.v = rec.pre.v
              /\ data = rec.pre
              /\ held.has)
    /\ [][(held.has /\ rec' = rec /\ held'.v # held.v) => data' = data]_vars
    /\ [][(held.has /\ data' # data) => held' = held]_vars

C13_Witness ==
    /\ rec.op = "get"
    /\ rec.res = OK
    /\ held.has
    /\ Len(rec.pre.v) = 2
    /\ Len(held.v) = 2
    /\ held.v[1] # rec.ret.v[1]
    /\ data = rec.pre

\* C14: one reverse() puts element length-1-k of the old contents at
\* position k; two in a row leave the contents as they were.
C14_Reverse ==
    /\ (rec.op = "reverse" /\ ~rec.pre.null) =>
           LET S == rec.pre.v IN
           /\ rec.res = OK
           /\ ~data.null
           /\ Len(data.v) = Len(S)
           /\ \A k \in 0..(Len(S) - 1) : data.v[k + 1] = S[(Len(S) - 1 - k) + 1]
    /\ (rec.op = "reverse" /\ rec.depth = 0 /\ prev.op = "reverse") =>
           (rec.res = OK /\ data = Present(prev.pre))

C14_Witness ==
    /\ rec.op = "reverse"
    /\ rec.depth = 0
    /\ prev.op = "reverse"
    /\ Len(prev.pre) = 3
    /\ prev.pre[1] # prev.pre[3]
    /\ data = Present(prev.pre)

\* C15: set(w) on a container that is not checked out leaves w as the
\* contents; on a checked-out container it fails with ReentrantAccess and the
\* slot stays null.
C15_Set ==
    rec.op = "set" =>
        IF rec.pre.null
        THEN rec.res = ReentrantAccess /\ data = Null
        ELSE rec.res = OK /\ data = Present(rec.args.w)

C15_Witness ==
    /\ rec.op = "set"
    /\ rec.depth = 1
    /\ rec.outer = "swap"
    /\ rec.args.w # <<>>
    /\ rec.res = ReentrantAccess
    /\ data = Null

\* C16: unwrap(from_vec(S)) returns S, for every S.
C16_RoundTrip ==
    (rec.op = "unwrap" /\ prev.op = "from_vec") =>
        (rec.res = OK /\ rec.ret = Present(prev.pre))

C16_Witness ==
    /\ rec.op = "unwrap"
    /\ prev.op = "from_vec"
    /\ Len(prev.pre) = 3
    /\ prev.pre[1] # prev.pre[3]
    /\ rec.ret.v = prev.pre

\* C17: check_out on a present container puts the null pointer in the slot
\* before f runs, calls f once with the extracted vector, and the slot stays
\* null for as long as the callback of any checkout runs; on a checked-out
\* container it fails with ReentrantAccess, calls nothing and leaves the slot
\* null.
C17_CheckOut ==
    /\ stack # <<>> => data.null
    /\ (stack # <<>> /\ Top.op = "check_out") =>
           (Len(Top.calls) = 1 /\ Top.calls[1].v = Top.v0)
    /\ (rec.op = "check_out" /\ rec.res \in {OK, Running}) => ~rec.pre.null
    /\ (rec.op = "check_out" /\ rec.res = OK) =>
           /\ Len(rec.calls) = 1
           /\ rec.calls[1].v = rec.pre.v
           /\ rec.val = rec.args.t
    /\ (rec.op = "check_out" /\ rec.pre.null) =>
           /\ rec.res = ReentrantAccess
           /\ rec.calls = <<>>
           /\ rec.ev = <<>>
           /\ data.null

C17_Witness ==
    /\ rec.op = "check_out"
    /\ rec.depth = 1
    /\ rec.outer = "check_out"
    /\ rec.res = ReentrantAccess
    /\ data.null

\* C18 as stated: at most one callback holds the extracted vector, the slot
\* is null only while a checkout is in flight (here: on runs without a
\* failure), and check_out and give_back alternate.
C18_AbsentOnlyInFlight ==
    /\ Len(stack) <= 1
    /\ (data.null /\ ~poisoned) => stack # <<>>
    /\ alt.ok

\* C18, amended: at most one callback holds the extracted vector; the slot is
\* null while a checkout is in flight, and otherwise only after check_out
\* itself has returned or a failure has unwound a checkout, neither of which
\* gives the vector back; the calls of check_out that pass the null test and
\* the calls of give_back alternate, starting with check_out.
C18_OneCheckout ==
    /\ Len(stack) <= 1
    /\ stack # <<>> => data.null
    /\ (data.null /\ stack = <<>>) => (poisoned \/ abandoned)
    /\ alt.ok

C18_Witness ==
    /\ data.null
    /\ stack = <<>>
    /\ abandoned
    /\ ~poisoned
    /\ rec.op = "check_out"
    /\ rec.res = OK

FastOps == {"len", "push", "set", "get_elt", "set_elt", "last"}

\* C20: len, push, set, get_elt, set_elt and last never call check_out, and
\* when one of them fails (EmptyContainer, IndexOutOfRange, ReentrantAccess)
\* the slot is exactly what it was before the call.
C20_FastPathFailure ==
    rec.op \in FastOps =>
        /\ rec.ev = <<>>
        /\ ~rec.pre.null => ~data.null
        /\ rec.res # OK => data = rec.pre
        /\ rec.res \in {OK, EmptyContainer, IndexOutOfRange, ReentrantAccess}

C20_Witness ==
    /\ rec.op = "last"
    /\ rec.res = EmptyContainer
    /\ ~data.null
    /\ data = rec.pre

====
